---- MODULE Spec2Model ----
(***************************************************************************)
(* STED point-spread-function simulation: parameter loading and            *)
(* validation (start.py), the PSF generators (psf_functions.py), the       *)
(* resolution analysis (resolution_functions.py) and the top-level script  *)
(* (main.py, from its line 35 on; the logging set-up above it and the      *)
(* logger calls are the reporting collaborator and carry no state here).   *)
(*                                                                         *)
(* Numbers.  The program computes in IEEE doubles; the model computes in   *)
(* fixed point, with every rounding a floor, so that each operation stays  *)
(* monotone as the double operation is:                                    *)
(*   intensities      ONE  = 2^15 units per 1.0                            *)
(*   exponents r2/w^2 TS   = 2^12 units per 1.0                            *)
(*   lengths          LU   = 32   units per nm                             *)
(*   NA               hundredths (1.49 is 149)                             *)
(*   I_s              tenths     (0.1 is 1)                                *)
(* lambda_exc, lambda_sted, I0_sted, grid_size, extent_nm are whole        *)
(* numbers.  All products stay below 2^31.                                 *)
(***************************************************************************)
EXTENDS Integers, Sequences, FiniteSets, TLC

VARIABLES
    pc,          \* position in main.py, or "call"/"ret" of a function under test
    config,      \* config.txt as configparser sees it
    params,      \* main.py:35  params
    error,       \* the exception that ended the run (type "None": none)
    reads,       \* number of calls of read_config_file made by the run
    xy,          \* main.py:56  the 1D axis
    exc_psf,     \* main.py:68,73
    sted_donut,  \* main.py:69,74
    eff_psf,     \* main.py:70,75
    norm_max,    \* main.py:73-75  the three divisors exc_psf.max(), ...
    fwhm_exc,    \* main.py:85
    fwhm_eff,    \* main.py:86
    output_dir,  \* main.py:87  "Output" exists
    plotted,     \* main.py:99  plot_results has run
    arg,         \* argument of the function under test
    ret          \* its result

vars == <<pc, config, params, error, reads, xy, exc_psf, sted_donut, eff_psf,
          norm_max, fwhm_exc, fwhm_eff, output_dir, plotted, arg, ret>>

ONE == 2^15
TS == 2^12
LU == 2^5

\* Python's None, an array not yet assigned, a number not yet assigned.
None == [lambda_exc |-> -1, lambda_sted |-> -1, NA |-> -1, I_s |-> -1,
         I0_sted |-> -1, grid_size |-> -1, extent_nm |-> -1]
Unset == <<>>
NoValue == 0 - 1
\* numpy's nan, the result of 0/0.
NaN == 0 - 2

FieldOrder == <<"lambda_exc", "lambda_sted", "NA", "I_s", "I0_sted",
                "grid_size", "extent_nm">>
FloatFields == {"lambda_exc", "lambda_sted", "NA", "I_s", "I0_sted"}

(***************************************************************************)
(* Exceptions.                                                             *)
(***************************************************************************)
NoError == [type |-> "None", msg |-> "", field |-> "", value |-> 0, lo |-> 0, hi |-> 0]
Raise(t, m) == [type |-> t, msg |-> m, field |-> "", value |-> 0, lo |-> 0, hi |-> 0]
RangeViolation(f, v, l, h) ==
    [type |-> "ValueError", msg |-> "Invalid value", field |-> f, value |-> v,
     lo |-> l, hi |-> h]

(***************************************************************************)
(* start.py: validate_parameters.  The seven checks, in the code's order.  *)
(***************************************************************************)
\* Faulty variant: the intervals taken as open.
validate_parameters_open(p) ==
    IF ~(400 < p.lambda_exc /\ p.lambda_exc < 700)
    THEN RangeViolation("lambda_exc", p.lambda_exc, 400, 700)
    ELSE IF ~(710 < p.lambda_sted /\ p.lambda_sted < 850)
    THEN RangeViolation("lambda_sted", p.lambda_sted, 710, 850)
    ELSE IF ~(50 < p.NA /\ p.NA < 149)
    THEN RangeViolation("NA", p.NA, 50, 149)
    ELSE IF ~(1 < p.I_s /\ p.I_s < 50)
    THEN RangeViolation("I_s", p.I_s, 1, 50)
    ELSE IF ~(0 < p.I0_sted /\ p.I0_sted < 100)
    THEN RangeViolation("I0_sted", p.I0_sted, 0, 100)
    ELSE IF ~(256 < p.grid_size /\ p.grid_size < 1000)
    THEN RangeViolation("grid_size", p.grid_size, 256, 1000)
    ELSE IF ~(500 < p.extent_nm /\ p.extent_nm < 2000)
    THEN RangeViolation("extent_nm", p.extent_nm, 500, 2000)
    ELSE NoError

\* Faulty variant: the checks run in the reverse order.
validate_parameters_reordered(p) ==
    IF ~(500 <= p.extent_nm /\ p.extent_nm <= 2000)
    THEN RangeViolation("extent_nm", p.extent_nm, 500, 2000)
    ELSE IF ~(256 <= p.grid_size /\ p.grid_size <= 1000)
    THEN RangeViolation("grid_size", p.grid_size, 256, 1000)
    ELSE IF ~(0 <= p.I0_sted /\ p.I0_sted <= 100)
    THEN RangeViolation("I0_sted", p.I0_sted, 0, 100)
    ELSE IF ~(1 <= p.I_s /\ p.I_s <= 50)
    THEN RangeViolation("I_s", p.I_s, 1, 50)
    ELSE IF ~(50 <= p.NA /\ p.NA <= 149)
    THEN RangeViolation("NA", p.NA, 50, 149)
    ELSE IF ~(710 <= p.lambda_sted /\ p.lambda_sted <= 850)
    THEN RangeViolation("lambda_sted", p.lambda_sted, 710, 850)
    ELSE IF ~(400 <= p.lambda_exc /\ p.lambda_exc <= 700)
    THEN RangeViolation("lambda_exc", p.lambda_exc, 400, 700)
    ELSE NoError

\* Faulty variant: the upper limit of lambda_exc mistyped as 800.
validate_parameters_wide(p) ==
    IF ~(400 <= p.lambda_exc /\ p.lambda_exc <= 800)
    THEN RangeViolation("lambda_exc", p.lambda_exc, 400, 800)
    ELSE IF ~(710 <= p.lambda_sted /\ p.lambda_sted <= 850)
    THEN RangeViolation("lambda_sted", p.lambda_sted, 710, 850)
    ELSE IF ~(50 <= p.NA /\ p.NA <= 149)
    THEN RangeViolation("NA", p.NA, 50, 149)
    ELSE IF ~(1 <= p.I_s /\ p.I_s <= 50)
    THEN RangeViolation("I_s", p.I_s, 1, 50)
    ELSE IF ~(0 <= p.I0_sted /\ p.I0_sted <= 100)
    THEN RangeViolation("I0_sted", p.I0_sted, 0, 100)
    ELSE IF ~(256 <= p.grid_size /\ p.grid_size <= 1000)
    THEN RangeViolation("grid_size", p.grid_size, 256, 1000)
    ELSE IF ~(500 <= p.extent_nm /\ p.extent_nm <= 2000)
    THEN RangeViolation("extent_nm", p.extent_nm, 500, 2000)
    ELSE NoError

validate_parameters(p) ==
    IF ~(400 <= p.lambda_exc /\ p.lambda_exc <= 700)
    THEN RangeViolation("lambda_exc", p.lambda_exc, 400, 700)
    ELSE IF ~(710 <= p.lambda_sted /\ p.lambda_sted <= 850)
    THEN RangeViolation("lambda_sted", p.lambda_sted, 710, 850)
    ELSE IF ~(50 <= p.NA /\ p.NA <= 149)
    THEN RangeViolation("NA", p.NA, 50, 149)
    ELSE IF ~(1 <= p.I_s /\ p.I_s <= 50)
    THEN RangeViolation("I_s", p.I_s, 1, 50)
    ELSE IF ~(0 <= p.I0_sted /\ p.I0_sted <= 100)
    THEN RangeViolation("I0_sted", p.I0_sted, 0, 100)
    ELSE IF ~(256 <= p.grid_size /\ p.grid_size <= 1000)
    THEN RangeViolation("grid_size", p.grid_size, 256, 1000)
    ELSE IF ~(500 <= p.extent_nm /\ p.extent_nm <= 2000)
    THEN RangeViolation("extent_nm", p.extent_nm, 500, 2000)
    ELSE NoError

(***************************************************************************)
(* start.py: read_config_file.  A configuration file is                    *)
(*   file    "present" | "absent" | "noheader" (option lines, no [section])*)
(*   section whether it holds a [settings] section                         *)
(*   opts    per field, the option's text:                                 *)
(*             kind "num"      a number, val in the field's unit           *)
(*             kind "fraction" a number with a fractional part             *)
(*             kind "text"     not a number                                *)
(*             kind "percent"  not a number, holding a lone % sign         *)
(*             kind "missing"  the option is not in the section            *)
(***************************************************************************)
Num(v) == [kind |-> "num", val |-> v]
Tok(k) == [kind |-> k, val |-> 0]

\* config.get + float()/int() on one option: the exception it raises.
ParseError(f, tok) ==
    CASE tok.kind = "missing" -> "NoOptionError"
      [] tok.kind = "percent" -> "InterpolationSyntaxError"
      [] tok.kind = "text" -> "ValueError"
      [] tok.kind = "fraction" /\ f \notin FloatFields -> "ValueError"
      [] OTHER -> "None"

\* The first option, in the order of lines 23-29, whose read raises (0: none).
FirstFailing(cfg) ==
    LET bad == {k \in 1..7 : ParseError(FieldOrder[k], cfg.opts[FieldOrder[k]]) # "None"}
    IN  IF bad = {} THEN 0 ELSE CHOOSE k \in bad : \A m \in bad : k <= m

Parsed(cfg) == [f \in DOMAIN cfg.opts |-> cfg.opts[f].val]

\* What the except clause of line 30 catches.
Caught(e) == e \in {"NoOptionError", "ValueError"}

\* Faulty variant: the call of validate_parameters (line 35) left out.
read_config_file_novalidate(cfg) ==
    IF cfg.file = "noheader" THEN [ret |-> None, exc |-> Raise("MissingSectionHeaderError", "")]
    ELSE IF ~cfg.section THEN [ret |-> None, exc |-> Raise("NoSectionError", "")]
    ELSE LET k == FirstFailing(cfg) IN
         IF k # 0
         THEN LET e == ParseError(FieldOrder[k], cfg.opts[FieldOrder[k]]) IN
              IF Caught(e) THEN [ret |-> None, exc |-> NoError]
              ELSE [ret |-> None, exc |-> Raise(e, "")]
         ELSE [ret |-> Parsed(cfg), exc |-> NoError]

read_config_file(cfg) ==
    IF cfg.file = "noheader" THEN [ret |-> None, exc |-> Raise("MissingSectionHeaderError", "")]
    ELSE IF ~cfg.section THEN [ret |-> None, exc |-> Raise("NoSectionError", "")]
    ELSE LET k == FirstFailing(cfg) IN
         IF k # 0
         THEN LET e == ParseError(FieldOrder[k], cfg.opts[FieldOrder[k]]) IN
              IF Caught(e) THEN [ret |-> None, exc |-> NoError]
              ELSE [ret |-> None, exc |-> Raise(e, "")]
         ELSE LET v == validate_parameters(Parsed(cfg)) IN
              IF v.type # "None" THEN [ret |-> None, exc |-> v]
              ELSE [ret |-> Parsed(cfg), exc |-> NoError]

(***************************************************************************)
(* Fixed-point exp(-t), t >= 0 in TS units, result in ONE units:           *)
(* exp(-t) = 2^(-y), y = t * log2(e); 2^(-frac) from a table of 2^(-k/256) *)
(* with linear interpolation, then the shift by the whole part.  Values    *)
(* under one unit are 0 (underflow).  Non-increasing in t; ExpNeg(0) = ONE.*)
(***************************************************************************)
Exp2Tab == <<
    32768, 32679, 32591, 32503, 32415, 32327, 32240, 32153, 32066, 31979, 31893, 31806,
    31720, 31635, 31549, 31464, 31379, 31294, 31209, 31125, 31041, 30957, 30873, 30790,
    30706, 30623, 30541, 30458, 30376, 30293, 30212, 30130, 30048, 29967, 29886, 29805,
    29725, 29644, 29564, 29484, 29405, 29325, 29246, 29167, 29088, 29009, 28931, 28852,
    28774, 28697, 28619, 28542, 28464, 28388, 28311, 28234, 28158, 28082, 28006, 27930,
    27855, 27779, 27704, 27629, 27554, 27480, 27406, 27332, 27258, 27184, 27110, 27037,
    26964, 26891, 26818, 26746, 26674, 26601, 26530, 26458, 26386, 26315, 26244, 26173,
    26102, 26031, 25961, 25891, 25821, 25751, 25681, 25612, 25543, 25474, 25405, 25336,
    25268, 25199, 25131, 25063, 24995, 24928, 24860, 24793, 24726, 24659, 24593, 24526,
    24460, 24394, 24328, 24262, 24196, 24131, 24066, 24001, 23936, 23871, 23806, 23742,
    23678, 23614, 23550, 23486, 23423, 23359, 23296, 23233, 23170, 23108, 23045, 22983,
    22921, 22859, 22797, 22735, 22674, 22613, 22552, 22491, 22430, 22369, 22309, 22248,
    22188, 22128, 22068, 22009, 21949, 21890, 21831, 21772, 21713, 21654, 21595, 21537,
    21479, 21421, 21363, 21305, 21247, 21190, 21133, 21076, 21019, 20962, 20905, 20849,
    20792, 20736, 20680, 20624, 20568, 20513, 20457, 20402, 20347, 20292, 20237, 20182,
    20127, 20073, 20019, 19965, 19911, 19857, 19803, 19750, 19696, 19643, 19590, 19537,
    19484, 19431, 19379, 19326, 19274, 19222, 19170, 19118, 19066, 19015, 18963, 18912,
    18861, 18810, 18759, 18708, 18658, 18607, 18557, 18507, 18457, 18407, 18357, 18308,
    18258, 18209, 18160, 18110, 18061, 18013, 17964, 17915, 17867, 17819, 17770, 17722,
    17674, 17627, 17579, 17531, 17484, 17437, 17390, 17343, 17296, 17249, 17202, 17156,
    17109, 17063, 17017, 16971, 16925, 16879, 16834, 16788, 16743, 16697, 16652, 16607,
    16562, 16518, 16473, 16428, 16384
>>

ExpNeg(t) ==
    IF t >= 11 * TS THEN 0
    ELSE LET y == (t * 23637) \div 16384
             q == y \div 4096
             f == y % 4096
             k == f \div 16
             fr == f % 16
             v == Exp2Tab[k + 1] - ((Exp2Tab[k + 1] - Exp2Tab[k + 2]) * fr) \div 16
         IN  v \div (2 ^ q)

(***************************************************************************)
(* Arrays.  A 1D array is a function on 0..n-1; a 2D array is a function   *)
(* on 0..n-1 of rows.                                                      *)
(***************************************************************************)
Count(a) == Cardinality(DOMAIN a)

\* The maximum of a[lo..hi], by halving.
RECURSIVE MaxIn(_, _, _)
MaxIn(a, lo, hi) ==
    IF lo = hi THEN a[lo]
    ELSE LET mid == (lo + hi) \div 2
             l == MaxIn(a, lo, mid)
             r == MaxIn(a, mid + 1, hi)
         IN  IF r > l THEN r ELSE l

\* np.max / ndarray.max of a non-empty 2D array without nan.
ArrayMax(psf) ==
    LET rowmax == [i \in DOMAIN psf |-> MaxIn(psf[i], 0, Count(psf[i]) - 1)]
    IN  MaxIn(rowmax, 0, Count(psf) - 1)

HasNaN(psf) == \E i \in DOMAIN psf : \E j \in DOMAIN psf[i] : psf[i][j] = NaN

\* The number of elements of a 2D array.
Size(psf) == IF Count(psf) = 0 THEN 0 ELSE Count(psf) * Count(psf[0])

(***************************************************************************)
(* resolution_functions.py                                                 *)
(***************************************************************************)
\* wavelength / (2 * NA), in length units, rounded to the nearest unit.
diffraction_limit(wavelength, NA) ==
    (2 * wavelength * LU * 100 + 2 * NA) \div (4 * NA)

\* fwhm: [exc, val].  np.max raises ValueError on an empty array (line 18
\* on psf, line 22 on indices[0]); a comparison with nan is False.
\* Faulty variant: the span counted in samples (max - min + 1).
fwhm_inclusive(psf) ==
    IF Size(psf) = 0 \/ HasNaN(psf) THEN [exc |-> "ValueError", val |-> NoValue]
    ELSE LET psf_max == ArrayMax(psf)
             rows == {i \in DOMAIN psf : \E j \in DOMAIN psf[i] : 2 * psf[i][j] >= psf_max}
         IN  IF rows = {} THEN [exc |-> "ValueError", val |-> NoValue]
             ELSE [exc |-> "None",
                   val |-> (CHOOSE a \in rows : \A b \in rows : b <= a)
                           - (CHOOSE a \in rows : \A b \in rows : a <= b) + 1]

fwhm(psf) ==
    IF Size(psf) = 0 \/ HasNaN(psf) THEN [exc |-> "ValueError", val |-> NoValue]
    ELSE LET psf_max == ArrayMax(psf)
             \* indices[0]: the first-axis indices of psf >= psf_max / 2
             rows == {i \in DOMAIN psf : \E j \in DOMAIN psf[i] : 2 * psf[i][j] >= psf_max}
         IN  IF rows = {} THEN [exc |-> "ValueError", val |-> NoValue]
             ELSE [exc |-> "None",
                   val |-> (CHOOSE a \in rows : \A b \in rows : b <= a)
                           - (CHOOSE a \in rows : \A b \in rows : a <= b)]

(***************************************************************************)
(* psf_functions.py, one element at a time.  x, y in length units, w0 in   *)
(* length units.                                                           *)
(***************************************************************************)
\* (x**2 + y**2) / w**2, in TS units.
R2OverW2(x, y, w) == (x * x + y * y) \div ((w * w) \div TS)

\* Faulty variant: the peak a nanometre off the centre along x.
gaussian_psf_offcentre(x, y, w0) == ExpNeg(R2OverW2(x - LU, y, w0))

gaussian_psf(x, y, w0) == ExpNeg(R2OverW2(x, y, w0))

RECURSIVE PowTS(_, _)
PowTS(t, m) == IF m = 1 THEN t ELSE (PowTS(t, m - 1) * t) \div TS

\* Faulty variant: the factor (r2 / w**2)**m left out, which is gaussian_psf.
laguerre_gaussian_donut_nofactor(x, y, w, m) == ExpNeg(R2OverW2(x, y, w))

laguerre_gaussian_donut(x, y, w, m) ==
    LET t == R2OverW2(x, y, w)
        e == ExpNeg(t)
    IN  IF e = 0 THEN 0 ELSE (PowTS(t, m) * e) \div TS

\* Faulty variant: the depletion factor inverted, 1 - exp(...).
effective_psf_inverted(exc, sted, I_s, I0_sted) ==
    (exc * (ONE - ExpNeg((I0_sted * sted * 10) \div (I_s * (ONE \div TS))))) \div ONE

\* Faulty variant: the sign of the exponent lost, exp(+I0_sted * sted / I_s)
\* (the overflow of the quotient capped).
effective_psf_signflip(exc, sted, I_s, I0_sted) ==
    LET e == ExpNeg((I0_sted * sted * 10) \div (I_s * (ONE \div TS)))
    IN  IF e = 0 THEN exc * ONE ELSE (exc * ONE) \div e

\* exc * exp(-I0_sted * sted / I_s); I_s in tenths.
effective_psf(exc, sted, I_s, I0_sted) ==
    (exc * ExpNeg((I0_sted * sted * 10) \div (I_s * (ONE \div TS)))) \div ONE

(***************************************************************************)
(* main.py: the grid and the arrays.                                       *)
(***************************************************************************)
\* np.linspace(-extent/2, extent/2, n), in length units, as numpy computes
\* it: step = (stop - start) / (n - 1), rounded; element i is i * step + start,
\* rounded; the last element is then set to stop.  The step keeps SU parts
\* of a length unit, which gives it the significant bits a position has.
\* Roundings are to the nearest, ties to even, as IEEE 754 arithmetic rounds.
SU == 2^10

RoundDiv(n, d) ==
    LET q == n \div d
        r == n % d
    IN  IF 2 * r > d \/ (2 * r = d /\ q % 2 = 1) THEN q + 1 ELSE q

linspace(extent, n) ==
    LET stop == (extent * LU) \div 2
        start == 0 - stop
        step == RoundDiv((stop - start) * SU, n - 1)
    IN  [i \in 0..(n - 1) |->
            IF i = n - 1 THEN stop ELSE RoundDiv(i * step, SU) + start]

\* x, y = np.meshgrid(xy, xy): x[i][j] = xy[j], y[i][j] = xy[i].
MeshX(a, i, j) == a[j]
MeshY(a, i, j) == a[i]

GaussianField(a, w0) ==
    [i \in DOMAIN a |-> [j \in DOMAIN a |->
        gaussian_psf(MeshX(a, i, j), MeshY(a, i, j), w0)]]

DonutField(a, w) ==
    [i \in DOMAIN a |-> [j \in DOMAIN a |->
        laguerre_gaussian_donut(MeshX(a, i, j), MeshY(a, i, j), w, 1)]]

EffectiveField(exc, sted, I_s, I0_sted) ==
    [i \in DOMAIN exc |-> [j \in DOMAIN exc[i] |->
        effective_psf(exc[i][j], sted[i][j], I_s, I0_sted)]]

\* Faulty variant: the division left out.
Normalize_skip(psf) == psf

\* psf /= psf.max(): 0/0 is nan (numpy warns and goes on); x/0, x > 0, is
\* inf, which no array of this model holds since its maximum would be x.
Normalize(psf) ==
    LET m == ArrayMax(psf) IN
    [i \in DOMAIN psf |-> [j \in DOMAIN psf[i] |->
        IF m = 0 THEN NaN ELSE (psf[i][j] * ONE) \div m]]

(***************************************************************************)
(* The configuration files the runs are started on.                        *)
(***************************************************************************)
P(le, ls, na, is, i0, n, ext) ==
    [lambda_exc |-> le, lambda_sted |-> ls, NA |-> na, I_s |-> is,
     I0_sted |-> i0, grid_size |-> n, extent_nm |-> ext]

\* Valid parameter sets: the reference set of the tests (valid_params, with
\* grid_size 500), and sets at the edges of the ranges on the two smallest
\* grids, one with an even and one with an odd number of samples.
ValidSets ==
    { P(650, 750, 130, 20, 25, 500, 1000),
      P(400, 710, 149, 1, 100, 257, 2000),
      P(400, 710, 149, 1, 100, 256, 2000),
      P(700, 710, 50, 1, 100, 256, 500),
      P(700, 850, 50, 50, 0, 257, 500),
      P(700, 850, 100, 20, 1, 256, 1000),
      P(400, 850, 149, 50, 100, 257, 500),
      P(550, 710, 100, 50, 1, 257, 2000) }

Base == P(650, 750, 130, 20, 25, 500, 1000)

File(p) == [file |-> "present", section |-> TRUE, opts |-> [f \in DOMAIN p |-> Num(p[f])]]

\* One-unit-outside values of each field, and texts that are no number.
Outside(f) ==
    CASE f = "lambda_exc" -> {399, 701}
      [] f = "lambda_sted" -> {709, 851}
      [] f = "NA" -> {49, 150}
      [] f = "I_s" -> {0, 51}
      [] f = "I0_sted" -> {0 - 1, 101}
      [] f = "grid_size" -> {255, 1001}
      [] f = "extent_nm" -> {499, 2001}

BadTokens(f) ==
    {Num(v) : v \in Outside(f)}
    \cup {Tok("missing"), Tok("text"), Tok("percent")}
    \cup (IF f \in FloatFields THEN {} ELSE {Tok("fraction")})

Fields == {FieldOrder[k] : k \in 1..7}

Override(c, f, tok) == [c EXCEPT !.opts[f] = tok]

\* Pairs of fields that are both wrong: an earlier and a later one.
BadPairs == {<<"lambda_exc", "NA">>, <<"NA", "grid_size">>, <<"lambda_sted", "extent_nm">>}

\* Files whose excitation wavelength is not below the depletion wavelength.
Crossed ==
    {File([Base EXCEPT !.lambda_exc = c[1], !.lambda_sted = c[2]]) :
        c \in {<<760, 750>>, <<650, 640>>, <<705, 705>>, <<710, 710>>, <<700, 700>>}}

Configs ==
    {File(p) : p \in ValidSets}
    \cup Crossed
    \cup UNION {{Override(File(Base), f, t) : t \in BadTokens(f)} : f \in Fields}
    \cup UNION {{Override(Override(File(Base), fg[1], t), fg[2], u) :
                    t \in BadTokens(fg[1]), u \in BadTokens(fg[2])} : fg \in BadPairs}
    \cup {[file |-> "absent", section |-> FALSE, opts |-> [f \in Fields |-> Tok("missing")]],
          [file |-> "present", section |-> FALSE, opts |-> [f \in Fields |-> Tok("missing")]],
          [file |-> "noheader", section |-> FALSE, opts |-> [f \in Fields |-> Tok("missing")]]}

(***************************************************************************)
(* main.py, lines 35-100.                                                  *)
(***************************************************************************)
\* Nothing of the script has run.
NotStarted ==
    /\ params = None
    /\ error = NoError
    /\ reads = 0
    /\ xy = Unset
    /\ exc_psf = Unset
    /\ sted_donut = Unset
    /\ eff_psf = Unset
    /\ norm_max = Unset
    /\ fwhm_exc = NoValue
    /\ fwhm_eff = NoValue
    /\ output_dir = FALSE
    /\ plotted = FALSE

Init ==
    /\ pc = "start"
    /\ config \in Configs
    /\ NotStarted
    /\ arg = Unset
    /\ ret = Unset

\* Lines 35-38: params = read_config_file(); an exception it raises ends
\* the script; None raises "Parameters could not be loaded".
LoadParameters ==
    /\ pc = "start"
    /\ reads' = reads + 1
    /\ LET r == read_config_file(config) IN
       IF r.exc.type # "None"
       THEN /\ error' = r.exc
            /\ pc' = "error"
            /\ params' = params
       ELSE IF r.ret = None
       THEN /\ error' = Raise("ValueError", "Parameters could not be loaded")
            /\ pc' = "error"
            /\ params' = r.ret
       ELSE /\ params' = r.ret
            /\ pc' = "grid"
            /\ error' = error
    /\ UNCHANGED <<config, xy, exc_psf, sted_donut, eff_psf, norm_max, fwhm_exc,
                   fwhm_eff, output_dir, plotted, arg, ret>>

\* Lines 43-58.
BuildGrid ==
    /\ pc = "grid"
    /\ xy' = linspace(params.extent_nm, params.grid_size)
    /\ pc' = "psf"
    /\ UNCHANGED <<config, params, error, reads, exc_psf, sted_donut, eff_psf,
                   norm_max, fwhm_exc, fwhm_eff, output_dir, plotted, arg, ret>>

\* Lines 61-70.
GeneratePsfs ==
    /\ pc = "psf"
    /\ LET w_exc == diffraction_limit(params.lambda_exc, params.NA)
           w_sted == diffraction_limit(params.lambda_sted, params.NA)
       IN  /\ exc_psf' = GaussianField(xy, w_exc)
           /\ sted_donut' = DonutField(xy, w_sted)
           /\ eff_psf' = EffectiveField(exc_psf', sted_donut', params.I_s, params.I0_sted)
    /\ pc' = "normalize"
    /\ UNCHANGED <<config, params, error, reads, xy, norm_max, fwhm_exc, fwhm_eff,
                   output_dir, plotted, arg, ret>>

\* Lines 73-75.
NormalizePsfs ==
    /\ pc = "normalize"
    /\ norm_max' = <<ArrayMax(exc_psf), ArrayMax(sted_donut), ArrayMax(eff_psf)>>
    /\ exc_psf' = Normalize(exc_psf)
    /\ sted_donut' = Normalize(sted_donut)
    /\ eff_psf' = Normalize(eff_psf)
    /\ pc' = "analysis"
    /\ UNCHANGED <<config, params, error, reads, xy, fwhm_exc, fwhm_eff,
                   output_dir, plotted, arg, ret>>

\* Lines 82-86.
Analysis ==
    /\ pc = "analysis"
    /\ LET a == fwhm(exc_psf)
           b == fwhm(eff_psf)
       IN  IF a.exc # "None" \/ b.exc # "None"
           THEN /\ error' = Raise("ValueError", "zero-size array")
                /\ pc' = "error"
                /\ fwhm_exc' = IF a.exc = "None" THEN a.val ELSE fwhm_exc
                /\ fwhm_eff' = fwhm_eff
           ELSE /\ fwhm_exc' = a.val
                /\ fwhm_eff' = b.val
                /\ pc' = "makedirs"
                /\ error' = error
    /\ UNCHANGED <<config, params, reads, xy, exc_psf, sted_donut, eff_psf,
                   norm_max, output_dir, plotted, arg, ret>>

\* Lines 87-90.
MakeOutputDir ==
    /\ pc = "makedirs"
    /\ output_dir' = TRUE
    /\ pc' = "plot"
    /\ UNCHANGED <<config, params, error, reads, xy, exc_psf, sted_donut, eff_psf,
                   norm_max, fwhm_exc, fwhm_eff, plotted, arg, ret>>

\* Lines 99-100.
PlotResults ==
    /\ pc = "plot"
    /\ plotted' = TRUE
    /\ pc' = "done"
    /\ UNCHANGED <<config, params, error, reads, xy, exc_psf, sted_donut, eff_psf,
                   norm_max, fwhm_exc, fwhm_eff, output_dir, arg, ret>>

Next ==
    \/ LoadParameters
    \/ BuildGrid
    \/ GeneratePsfs
    \/ NormalizePsfs
    \/ Analysis
    \/ MakeOutputDir
    \/ PlotResults

Spec == Init /\ [][Next]_vars

(***************************************************************************)
(* The functions on their own: each specification draws the argument of    *)
(* one function from a bounded set and calls it once.                      *)
(***************************************************************************)
script == <<config, params, error, reads, xy, exc_psf, sted_donut, eff_psf,
            norm_max, fwhm_exc, fwhm_eff, output_dir, plotted>>

NoFile == [file |-> "absent", section |-> FALSE, opts |-> [f \in Fields |-> Tok("missing")]]

\* validate_parameters on every combination of the edges of the ranges and
\* the values Margin and less outside them.
Margin == 1

Edges(lo, hi) == {lo, hi} \cup {lo - d : d \in 1..Margin} \cup {hi + d : d \in 1..Margin}

InitValidate ==
    /\ pc = "call validate_parameters"
    /\ \E le \in Edges(400, 700), ls \in Edges(710, 850), na \in Edges(50, 149),
          is \in Edges(1, 50), i0 \in Edges(0, 100), n \in Edges(256, 1000),
          ext \in Edges(500, 2000) :
          arg = P(le, ls, na, is, i0, n, ext)
    /\ ret = Unset
    /\ config = NoFile
    /\ NotStarted

CallValidate ==
    /\ pc = "call validate_parameters"
    /\ ret' = validate_parameters(arg)
    /\ pc' = "ret"
    /\ UNCHANGED <<arg, script>>

SpecValidate == InitValidate /\ [][CallValidate]_vars

\* fwhm on every square array of side up to MaxSide with values 0..MaxLevel.
MaxSide == 2
MaxLevel == 2

InitFwhm ==
    /\ pc = "call fwhm"
    /\ \E n \in 0..MaxSide : arg \in [(0..(n - 1)) -> [(0..(n - 1)) -> 0..MaxLevel]]
    /\ ret = Unset
    /\ config = NoFile
    /\ NotStarted

CallFwhm ==
    /\ pc = "call fwhm"
    /\ ret' = fwhm(arg)
    /\ pc' = "ret"
    /\ UNCHANGED <<arg, script>>

SpecFwhm == InitFwhm /\ [][CallFwhm]_vars

\* effective_psf on one element: exc and sted at the multiples of 1/Steps,
\* I0_sted up to MaxI0.
Steps == 4
MaxI0 == 300

Levels == {(k * ONE) \div Steps : k \in 0..Steps}

InitEffective ==
    /\ pc = "call effective_psf"
    /\ arg \in [exc : Levels, sted : Levels, I_s : {1, 20, 50}, I0_sted : 0..MaxI0]
    /\ ret = Unset
    /\ config = NoFile
    /\ NotStarted

CallEffective ==
    /\ pc = "call effective_psf"
    /\ ret' = effective_psf(arg.exc, arg.sted, arg.I_s, arg.I0_sted)
    /\ pc' = "ret"
    /\ UNCHANGED <<arg, script>>

SpecEffective == InitEffective /\ [][CallEffective]_vars

\* laguerre_gaussian_donut at one position: the waists are 2 nm and the
\* smallest and the largest waist of a validated run; x and y are 0, half a
\* waist and a waist to either side, and Far waists out where the squares
\* still fit the integers; the modes are 1..MaxMode.
MaxMode == 3
Far == 30

Waists == {2 * LU, diffraction_limit(710, 149), diffraction_limit(850, 50)}

Offsets(w) ==
    {0, w \div 2, 0 - (w \div 2), w, 0 - w}
        \cup (IF w * Far < 2 ^ 15 THEN {w * Far, 0 - (w * Far)} ELSE {})

InitDonut ==
    /\ pc = "call laguerre_gaussian_donut"
    /\ \E w \in Waists : \E x \in Offsets(w), y \in Offsets(w), m \in 1..MaxMode :
          arg = [x |-> x, y |-> y, w |-> w, m |-> m]
    /\ ret = Unset
    /\ config = NoFile
    /\ NotStarted

CallDonut ==
    /\ pc = "call laguerre_gaussian_donut"
    /\ ret' = laguerre_gaussian_donut(arg.x, arg.y, arg.w, arg.m)
    /\ pc' = "ret"
    /\ UNCHANGED <<arg, script>>

SpecDonut == InitDonut /\ [][CallDonut]_vars

(***************************************************************************)
(* Properties.                                                             *)
(***************************************************************************)
\* The documented closed intervals, in the model's units.
Interval ==
    [lambda_exc |-> <<400, 700>>, lambda_sted |-> <<710, 850>>, NA |-> <<50, 149>>,
     I_s |-> <<1, 50>>, I0_sted |-> <<0, 100>>, grid_size |-> <<256, 1000>>,
     extent_nm |-> <<500, 2000>>]

Within(p, f) == Interval[f][1] <= p[f] /\ p[f] <= Interval[f][2]

AllWithin(p) == \A f \in Fields : Within(p, f)

\* C1: validate_parameters returns without raising exactly when all seven
\* fields lie in their closed intervals (the edges included); otherwise it
\* raises a ValueError.
C1_AcceptsIffAllInRange ==
    pc = "ret" =>
        /\ (ret = NoError) <=> AllWithin(arg)
        /\ ~AllWithin(arg) => ret.type = "ValueError"

\* C1, its case: the set with every field on an edge of its interval has
\* been accepted.
C1_Witness ==
    /\ pc = "ret"
    /\ arg = P(400, 850, 149, 1, 0, 1000, 500)
    /\ ret = NoError

\* The first field, in the order of the checks, outside its interval.
FirstOutside(p) ==
    FieldOrder[CHOOSE k \in 1..7 :
        /\ ~Within(p, FieldOrder[k])
        /\ \A m \in 1..(k - 1) : Within(p, FieldOrder[m])]

\* C2: a rejection names exactly the first out-of-range field in the order
\* lambda_exc, lambda_sted, NA, I_s, I0_sted, grid_size, extent_nm, with
\* that field's value and its expected range.
C2_FirstViolationReported ==
    (pc = "ret" /\ ret # NoError) =>
        LET f == FirstOutside(arg) IN
        /\ ret.field = f
        /\ ret.value = arg[f]
        /\ ret.lo = Interval[f][1]
        /\ ret.hi = Interval[f][2]

\* C2, its case: NA, grid_size and extent_nm are all out of range and the
\* error names NA.
C2_Witness ==
    /\ pc = "ret"
    /\ arg = P(400, 850, 150, 1, 0, 1001, 499)
    /\ ret = RangeViolation("NA", 150, 50, 149)

\* Every option of the file reads as a number of its field's type.
AllNumeric(cfg) ==
    /\ cfg.file = "present"
    /\ cfg.section
    /\ \A f \in Fields : ParseError(f, cfg.opts[f]) = "None"

\* No stage after the loading of the parameters has left a trace.
NothingComputed ==
    /\ xy = Unset
    /\ exc_psf = Unset
    /\ sted_donut = Unset
    /\ eff_psf = Unset
    /\ norm_max = Unset
    /\ fwhm_exc = NoValue
    /\ fwhm_eff = NoValue
    /\ ~output_dir
    /\ ~plotted

\* C3: a run whose parameters fail validation ends in the error state with
\* no grid, no PSF, no FWHM, no output directory and no plot; the error is
\* the validation error itself, and read_config_file was called once.
C3_ValidationFailureAborts ==
    (pc # "start" /\ AllNumeric(config) /\ ~AllWithin(Parsed(config))) =>
        /\ pc = "error"
        /\ error.type = "ValueError"
        /\ error.msg = "Invalid value"
        /\ error.field = FirstOutside(Parsed(config))
        /\ error.value = Parsed(config)[error.field]
        /\ reads = 1
        /\ NothingComputed

\* C3, its case: a run on a file with NA out of range has stopped.
C3_Witness ==
    /\ pc = "error"
    /\ error = RangeViolation("NA", 150, 50, 149)
    /\ reads = 1
    /\ NothingComputed

\* A file in which a field is missing or not a number, the absent file and
\* the file without a [settings] section included.
MissingOrNonNumeric(cfg) == ~AllNumeric(cfg)

\* C4 (as claimed): every such file ends the run with the "Parameters could
\* not be loaded" error, and with no other exception.
C4_LoadFailureReported ==
    (pc # "start" /\ MissingOrNonNumeric(config)) =>
        /\ pc = "error"
        /\ error = Raise("ValueError", "Parameters could not be loaded")
        /\ params = None

\* The array has a positive maximum.
NonDegenerate(psf) == Size(psf) > 0 /\ ~HasNaN(psf) /\ ArrayMax(psf) > 0

\* C5 (as claimed): fwhm is strictly positive on every non-degenerate array
\* it is given; in a run, on exc_psf and on eff_psf.
C5_FwhmPositive ==
    pc \in {"makedirs", "plot", "done"} =>
        /\ NonDegenerate(exc_psf) => fwhm_exc > 0
        /\ NonDegenerate(eff_psf) => fwhm_eff > 0

\* The same on the small arrays of SpecFwhm: a lone peak has width 0.
FwhmPositiveOnSmallArrays ==
    (pc = "ret" /\ NonDegenerate(arg)) => (ret.exc = "None" /\ ret.val > 0)

\* C6: on every non-empty square array fwhm returns a number below the side
\* (at most side - 1), and not below 0.
C6_FwhmBelowGridSize ==
    (pc = "ret" /\ Size(arg) > 0) =>
        /\ ret.exc = "None"
        /\ 0 <= ret.val
        /\ ret.val < Count(arg)

\* C6, its case: the half-maximum region spans all rows of a 2 x 2 array.
C6_Witness ==
    /\ pc = "ret"
    /\ Count(arg) = 2
    /\ ArrayMax(arg) > 0
    /\ ret.val = 1

\* C7 (as claimed): an all-zero or empty array gives the distinct
\* UndefinedResolution outcome, never a number and never another error.
C7_UndefinedResolution ==
    (pc = "ret" /\ ~NonDegenerate(arg)) => ret.exc = "UndefinedResolution"

\* C8: in a run that has measured both widths, fwhm_eff <= fwhm_exc.
C8_EffectiveNotWider ==
    pc \in {"makedirs", "plot", "done"} => fwhm_eff <= fwhm_exc

\* C8, its case: the run on the reference set has measured both widths,
\* and depletion narrowed the spot.
C8_Witness ==
    /\ pc = "makedirs"
    /\ params = P(650, 750, 130, 20, 25, 500, 1000)
    /\ fwhm_eff > 0
    /\ fwhm_eff < fwhm_exc

\* Every element lies in [0, 1] and the maximum is exactly 1.
Normalized(psf) ==
    /\ \A i \in DOMAIN psf : \A j \in DOMAIN psf[i] : 0 <= psf[i][j] /\ psf[i][j] <= ONE
    /\ \E i \in DOMAIN psf : \E j \in DOMAIN psf[i] : psf[i][j] = ONE

\* C9: when fwhm is about to be called (pc = "analysis") and when
\* plot_results is about to be called (pc = "plot"), each of the three
\* arrays is normalised, and none of the three divisors was zero.
C9_NormalizedBeforeUse ==
    pc \in {"analysis", "plot"} =>
        /\ \A k \in 1..3 : norm_max[k] > 0
        /\ Normalized(exc_psf)
        /\ Normalized(sted_donut)
        /\ Normalized(eff_psf)

\* C9, its case: the arrays reach plot_results after a normalisation that
\* divided by maxima other than 1.
C9_Witness ==
    /\ pc = "plot"
    /\ norm_max[1] < ONE
    /\ norm_max[2] < ONE
    /\ norm_max[3] < ONE
    /\ Normalized(eff_psf)

\* C10: effective_psf never exceeds exc and is never negative; it equals
\* exc where sted = 0 and when I0_sted = 0; where sted > 0 it does not grow
\* with I0_sted and has reached 0 at I0_sted = MaxI0.
C10_DepletionAttenuates ==
    pc = "ret" =>
        /\ 0 <= ret
        /\ ret <= arg.exc
        /\ (arg.sted = 0 \/ arg.I0_sted = 0) => ret = arg.exc
        /\ (arg.sted > 0 /\ arg.I0_sted > 0) =>
               ret <= effective_psf(arg.exc, arg.sted, arg.I_s, arg.I0_sted - 1)
        /\ arg.sted > 0 =>
               effective_psf(arg.exc, arg.sted, arg.I_s, MaxI0) = 0

\* C10, its case: a positive depletion has attenuated a positive excitation
\* without extinguishing it.
C10_Witness ==
    /\ pc = "ret"
    /\ arg.sted > 0
    /\ arg.I0_sted > 0
    /\ 0 < ret
    /\ ret < arg.exc

(***************************************************************************)
(* C11.  As claimed: laguerre_gaussian_donut is exactly 0 at x = 0, y = 0  *)
(* and strictly positive at every position with x^2 + y^2 > 0, for every   *)
(* mode m >= 1.                                                            *)
(***************************************************************************)
R2(a) == a.x * a.x + a.y * a.y

AroundRing(a) == R2(a) >= (a.w * a.w) \div 4 /\ R2(a) <= 2 * a.w * a.w

Mirror(a, i) == Count(a) - 1 - i

C12_GridMirrorEqual ==
    pc = "normalize" =>
        \A i \in DOMAIN exc_psf : \A j \in DOMAIN exc_psf :
            /\ exc_psf[i][j] = exc_psf[i][Mirror(exc_psf, j)]
            /\ exc_psf[i][j] = exc_psf[Mirror(exc_psf, i)][j]

Abs(v) == IF v < 0 THEN 0 - v ELSE v

\* A thousandth of the peak value.
SymTol == ONE \div 1000

(***************************************************************************)
(* C12, amended.  gaussian_psf gives the same value at (x, y), (-x, y),    *)
(* (x, -y) and (-x, -y) for every position of the grid, and the field on   *)
(* the grid equals its mirror images to within SymTol: the axis numpy      *)
(* builds is mirror-symmetric only up to the rounding of its step.         *)
(***************************************************************************)
C12_GaussianSymmetric ==
    pc = "normalize" =>
        LET w0 == diffraction_limit(params.lambda_exc, params.NA) IN
        \A i \in DOMAIN exc_psf : \A j \in DOMAIN exc_psf :
            LET x == MeshX(xy, i, j)
                y == MeshY(xy, i, j)
            IN  /\ exc_psf[i][j] = gaussian_psf(0 - x, y, w0)
                /\ exc_psf[i][j] = gaussian_psf(x, 0 - y, w0)
                /\ exc_psf[i][j] = gaussian_psf(0 - x, 0 - y, w0)
                /\ Abs(exc_psf[i][j] - exc_psf[i][Mirror(exc_psf, j)]) <= SymTol
                /\ Abs(exc_psf[i][j] - exc_psf[Mirror(exc_psf, i)][j]) <= SymTol

\* A run on a grid whose axis is not exactly mirror-symmetric.
C12_Witness ==
    /\ pc = "normalize"
    /\ params.grid_size = 256
    /\ \E j \in DOMAIN xy : xy[Mirror(xy, j)] # 0 - xy[j]
    /\ \E i \in DOMAIN exc_psf : \E j \in DOMAIN exc_psf :
            /\ exc_psf[i][j] # exc_psf[i][Mirror(exc_psf, j)]
            /\ exc_psf[i][j] > ONE \div 2

(***************************************************************************)
(* C13.  validate_parameters compares no field with another, yet every     *)
(* parameter set it accepts has lambda_sted > lambda_exc, and so has every *)
(* parameter set a run takes to the grid and the PSF stages and beyond.    *)
(***************************************************************************)
Accepted(cfg) == AllNumeric(cfg) /\ validate_parameters(Parsed(cfg)).type = "None"

C13_DepletionWavelengthLonger ==
    /\ (pc # "start" /\ Accepted(config)) =>
            Parsed(config).lambda_sted > Parsed(config).lambda_exc
    /\ pc \in {"grid", "psf", "normalize", "analysis", "makedirs", "plot", "done"} =>
            /\ params = Parsed(config)
            /\ params.lambda_sted > params.lambda_exc

\* The closest pair of wavelengths that is accepted has reached the grid stage.
C13_Witness ==
    /\ pc = "psf"
    /\ xy # Unset
    /\ params.lambda_exc = 700
    /\ params.lambda_sted = 710

====
